---- MODULE Spec2Model ----
(***************************************************************************)
(* The index pool of package pool (pool.go), the byte-buffer pool built on *)
(* it (mempool.go), the Limiter and MemLimiter of the same package, the    *)
(* FixedPool of package mem and the MemPool of package mempool, as state   *)
(* machines over goroutines that call Get and Put.  Every access to        *)
(* shared memory (one compare-and-swap, one atomic load or store, one byte *)
(* store, one operation on the condition variable's notify list) is one    *)
(* step, so that all interleavings the Go scheduler can produce are        *)
(* behaviours of the model.                                                *)
(***************************************************************************)
EXTENDS Integers, Sequences, FiniteSets, TLC

\* Largest capacity n given to NewIndexPool; Init draws n from 1..MaxN.
MaxN == 2
\* Number of goroutines that call the pool and Put only what they hold.
NProcs == 3
\* Number of goroutines that call the pool and Put any integer.
NProcsAny == 2
\* Number of goroutines that call the MemPool.
NProcsMem == 2
\* The size given to NewMemPool: bytes per buffer.
BufSize == 2
\* The width of int64 (and of int), scaled down: integers are IntBits wide.
IntBits == 4
\* Init draws the Limiter's limit from 0..MaxLimit and from the largest int64.
MaxLimit == 2
\* Number of goroutines that call the Limiter and Put only units they hold.
NProcsLim == 3
\* Number of goroutines that call the Limiter or MemLimiter with any amount.
NProcsLimAny == 2
\* Number of goroutines that call whatever object a constructor returned.
NProcsNew == 2
\* Number of goroutines that call the pool while lh is recorded.
NProcsBarge == 3
\* Number of goroutines that call the FixedPool and Put only what they hold.
NProcsFixed == 2
\* Number of goroutines that call the FixedPool and Put any buffer.
NProcsFixedAny == 2
\* Number of goroutines that call the mempool.MemPool.
NProcsMutex == 3

VARIABLES
    n,        \* len(p.indices), fixed by NewIndexPool
    indices,  \* p.indices: slot -> 0 (available) or 1 (taken)
    notify,   \* p.cond's notify list: the goroutines suspended in Wait, oldest first
    pc,       \* goroutine -> where it is: idle, or inside Get or Put
    idx,      \* goroutine -> Get's loop variable i, or Put's argument i
    held,     \* goroutine -> the indices Get returned to it that no Put has been
              \*              passed since
    res,      \* goroutine -> the outcome of the call it completed last
    seen,     \* goroutine -> the slots its compare-and-swap failed on in this pass
    blk,      \* goroutine -> TRUE while it is in a Get that was called with every
              \*              slot taken and no Put has stored 0 since
    rt,       \* the round trip Get, Put(i), Get of one goroutine on an idle pool
    hist,     \* whether blk and rt are recorded (no step of the code reads them)
    NoClear,  \* MemPool.NoClear
    bufs,     \* MemPool.bufs: region -> byte offset -> 0, or 1 for any other value
    b,        \* goroutine -> the slice header (Data, Len) passed to MemPool.Put
    cj,       \* goroutine -> the clearing loop's variable j in MemPool.Put
    wrote,    \* the regions some holder has written to so far
    limit,    \* l.limit, fixed by NewLimiter
    inuse,    \* l.inuse
    ln,       \* goroutine -> the argument n of the Limiter call it is in
    linuse,   \* goroutine -> Get's local inuse, the value it loaded last
    recv,     \* goroutine -> the receiver of the call it is in or completed
              \*              last: "Limiter" or "MemLimiter"
    net,      \* the sum of n over the Gets that have returned, less the sum
              \*              of n over the Puts that have returned
    lres,     \* the outcome of the Limiter or MemLimiter call completed last
    obj,      \* what the constructor returned: "IndexPool", "MemPool" or
              \*              "Limiter"; "none" before any has returned
    ctor,     \* the constructor call completed last: its arguments, and
              \*              whether it panicked
    lh,       \* goroutine -> what happened to the Get it is in or completed
              \*              last: short, its last load found inuse + n > limit
              \*              (its last pass found every slot taken); woke, a
              \*              Broadcast (a Signal) has woken it
    lens,     \* region -> the Len field of the slice header p.bufs[i] of a
              \*              FixedPool or of a mempool.MemPool
    s,        \* goroutine -> the copy s of p.bufs[i] that FixedPool.Get's
              \*              range clause made last (Data, Len)
    mu        \* mempool.MemPool.mu: the goroutine that holds it, 0 when unlocked

poolvars == <<n, indices, notify, pc, idx, held, res, seen, blk, rt, hist>>
memvars == <<NoClear, bufs, b, cj, wrote>>
limfields == <<limit, inuse, ln, linuse, recv, net, lres, obj, ctor>>
limvars == <<limfields, lh>>
fixvars == <<lens, s, mu>>
vars == <<poolvars, memvars, limvars, fixvars>>

Procs == DOMAIN pc
Slots == 0..(n - 1)

NoRes == [op |-> "none", val |-> -1, panic |-> FALSE]
NoRT == [t |-> 0, ph |-> 0, i |-> -1]
NoBuf == [Data |-> -1, Len |-> 0]

OthersIdle(t) == \A u \in Procs \ {t} : pc[u] = "idle"

(***************************************************************************)
(* Bookkeeping of the round trip (history only; no code reads it).         *)
(* ph 1: Get called on an idle pool; 2: it returned i; 3: Put(i) called    *)
(* next; 4: Put returned; 5: Get called next.  A step of any other         *)
(* goroutine ends the round trip.                                          *)
(***************************************************************************)
RTCall(r, t, op, i) ==
    IF ~hist THEN NoRT
    ELSE IF op = "Get"
    THEN IF ~OthersIdle(t) THEN NoRT
         ELSE IF r.t = t /\ r.ph = 4 THEN [t |-> t, ph |-> 5, i |-> r.i]
         ELSE [t |-> t, ph |-> 1, i |-> -1]
    ELSE IF r.t = t /\ r.ph = 2 /\ r.i = i THEN [t |-> t, ph |-> 3, i |-> i]
         ELSE NoRT

RTRet(r, t, op, v) ==
    IF r.t # t THEN NoRT
    ELSE IF op = "Get" /\ r.ph \in {1, 5} THEN [t |-> t, ph |-> 2, i |-> v]
    ELSE IF op = "Put" /\ r.ph = 3 THEN [t |-> t, ph |-> 4, i |-> r.i]
    ELSE NoRT

RTStep(r, t) == IF r.t = t THEN r ELSE NoRT

(***************************************************************************)
(* IndexPool.Get                                                           *)
(***************************************************************************)
\* A compare-and-swap that does not compare.
CompareAndSwapBlind(i) == TRUE

\* atomic.CompareAndSwapInt32(&p.indices[i], 0, 1) swaps iff the slot holds 0.
CompareAndSwap(i) == indices[i] = 0

\* A scan that gives up after its first failed compare-and-swap.
ScanDoneEarly(i) == TRUE

\* for i := range p.indices: the pass is over after the last slot.
ScanDone(i) == i + 1 >= n

\* lh after goroutine t made a step of Get that left it short or not.
LHStep(t, short) ==
    IF t \in DOMAIN lh
    THEN [lh EXCEPT ![t] = [short |-> hist /\ short,
                            woke |-> hist /\ pc[t] = "scan" /\ @.woke]]
    ELSE lh

\* lh after a Signal woke goroutine t.
LHWake(t) ==
    IF t \in DOMAIN lh
    THEN [lh EXCEPT ![t] = [short |-> FALSE, woke |-> hist]]
    ELSE lh

\* One iteration of Get's inner loop at slot i: claim the slot and return i,
\* or go on to the next slot, or to cond.Wait when the pass found nothing.
ScanStep(t, i, r) ==
    /\ lh' = LHStep(t, ~CompareAndSwap(i) /\ ScanDone(i))
    /\ IF CompareAndSwap(i)
       THEN /\ indices' = [indices EXCEPT ![i] = 1]
            /\ pc' = [pc EXCEPT ![t] = "idle"]
            /\ idx' = [idx EXCEPT ![t] = 0]
            /\ held' = [held EXCEPT ![t] = @ \cup {i}]
            /\ res' = [res EXCEPT ![t] = [op |-> "Get", val |-> i, panic |-> FALSE]]
            /\ seen' = [seen EXCEPT ![t] = {}]
            /\ rt' = RTRet(r, t, "Get", i)
       ELSE /\ pc' = [pc EXCEPT ![t] = IF ScanDone(i) THEN "wait" ELSE "scan"]
            /\ idx' = [idx EXCEPT ![t] = i + 1]
            /\ seen' = [seen EXCEPT ![t] = @ \cup {i}]
            /\ res' = [res EXCEPT ![t] = NoRes]
            /\ rt' = r
            /\ UNCHANGED <<indices, held>>

\* A pass that starts at the last slot.
ScanFirstLast == n - 1

\* for i := range p.indices: a pass starts at slot 0.
ScanFirst == 0

\* A call of Get, up to and including its first compare-and-swap.
Get(t) ==
    /\ pc[t] = "idle"
    /\ ScanStep(t, ScanFirst, RTCall(rt, t, "Get", -1))
    /\ blk' = [blk EXCEPT ![t] = hist /\ \A i \in Slots : indices[i] = 1]
    /\ UNCHANGED <<n, notify, hist, memvars, limfields, fixvars>>

\* The next compare-and-swap of a Get that is scanning.
GetScan(t) ==
    /\ pc[t] = "scan"
    /\ ScanStep(t, idx[t], RTStep(rt, t))
    /\ UNCHANGED <<n, notify, blk, hist, memvars, limfields, fixvars>>

\* p.cond.Wait(): the goroutine joins the notify list and is suspended.  The
\* locker is a no-op, so nothing orders this step after a concurrent Put.
GetWait(t) ==
    /\ pc[t] = "wait"
    /\ notify' = Append(notify, t)
    /\ pc' = [pc EXCEPT ![t] = "parked"]
    /\ rt' = RTStep(rt, t)
    /\ UNCHANGED <<n, indices, idx, held, res, seen, blk, hist, memvars, limvars, fixvars>>

(***************************************************************************)
(* IndexPool.Put                                                           *)
(***************************************************************************)
\* A range check that lets every index through.
PutOutOfRangeNever(i) == FALSE

\* i < 0 || i >= len(p.indices)
PutOutOfRange(i) == i < 0 \/ i >= n

\* atomic.LoadInt32(&p.indices[i]) == 0
PutAlreadyReturned(i) == indices[i] = 0

\* The guard of the branch that stores 0.
PutStores(i) == i > 0 /\ i < n

\* Put(i) up to and including the atomic load: panic, or go on to the
\* store, or (when the third branch is not taken) to the Signal.
PutCheck(t, i) ==
    /\ IF PutOutOfRange(i) \/ (i \in Slots /\ PutAlreadyReturned(i))
       THEN /\ res' = [res EXCEPT ![t] = [op |-> "Put", val |-> i, panic |-> TRUE]]
            /\ rt' = NoRT
            /\ pc' = [pc EXCEPT ![t] = "idle"]
            /\ idx' = [idx EXCEPT ![t] = 0]
            /\ UNCHANGED held
       ELSE /\ pc' = [pc EXCEPT ![t] = IF PutStores(i) THEN "store" ELSE "signal"]
            /\ idx' = [idx EXCEPT ![t] = i]
            /\ held' = [u \in Procs |-> held[u] \ {i}]
            /\ res' = [res EXCEPT ![t] = NoRes]
            /\ rt' = RTCall(rt, t, "Put", i)
    /\ blk' = [blk EXCEPT ![t] = FALSE]
    /\ UNCHANGED <<n, indices, notify, seen, hist>>

\* A call of IndexPool.Put(i) by a goroutine.
Put(t, i) ==
    /\ pc[t] = "idle"
    /\ PutCheck(t, i)
    /\ UNCHANGED <<memvars, limvars, fixvars>>

\* atomic.StoreInt32(&p.indices[i], 0)
PutStore(t) ==
    /\ pc[t] = "store"
    /\ indices' = [indices EXCEPT ![idx[t]] = 0]
    /\ pc' = [pc EXCEPT ![t] = "signal"]
    /\ blk' = [u \in Procs |-> FALSE]
    /\ rt' = RTStep(rt, t)
    /\ UNCHANGED <<n, notify, idx, held, res, seen, hist, memvars, limvars, fixvars>>

\* A woken Get that goes on with the last slot only.
RestartLast == n - 1

\* for { for i := range p.indices {: a Get that returns from cond.Wait
\* starts the next pass at slot 0.
Restart == 0

\* p.cond.Signal(): wakes the goroutine that has waited longest, if there is
\* one, which restarts its scan at slot 0; then Put returns.
PutSignal(t) ==
    /\ pc[t] = "signal"
    /\ IF notify = <<>>
       THEN /\ pc' = [pc EXCEPT ![t] = "idle"]
            /\ idx' = [idx EXCEPT ![t] = 0]
            /\ UNCHANGED <<notify, seen, lh>>
       ELSE /\ pc' = [pc EXCEPT ![t] = "idle", ![Head(notify)] = "scan"]
            /\ idx' = [idx EXCEPT ![t] = 0, ![Head(notify)] = Restart]
            /\ seen' = [seen EXCEPT ![Head(notify)] = {}]
            /\ notify' = Tail(notify)
            /\ lh' = LHWake(Head(notify))
    /\ res' = [res EXCEPT ![t] = [op |-> "Put", val |-> idx[t], panic |-> FALSE]]
    /\ rt' = RTRet(rt, t, "Put", idx[t])
    /\ UNCHANGED <<n, indices, held, blk, hist, memvars, limfields, fixvars>>

(***************************************************************************)
(* NewIndexPool(n) for n in 1..MaxN, and goroutines that have called       *)
(* nothing yet.                                                            *)
(***************************************************************************)
NoLH == [short |-> FALSE, woke |-> FALSE]
NoCtor == [fn |-> "none", n |-> 0, size |-> 0, panic |-> FALSE]
NoLRes == [op |-> "none", val |-> -1, panic |-> FALSE]

\* No FixedPool and no mempool.MemPool is in use.
NoFixed ==
    /\ lens = <<>>
    /\ s = <<>>
    /\ mu = 0

\* No Limiter is in use, and no goroutine has locals of a Limiter call.
NoLimiter(k, o) ==
    /\ obj = o
    /\ ctor = NoCtor
    /\ limit = 0
    /\ inuse = 0
    /\ ln = <<>>
    /\ linuse = <<>>
    /\ recv = <<>>
    /\ net = 0
    /\ lres = NoLRes
    /\ NoFixed

\* NewIndexPool(n) and k goroutines; h says whether blk and rt are recorded,
\* l is the initial lh.
InitCallers(k, h, l) ==
    /\ n \in 1..MaxN
    /\ indices = [i \in 0..(n - 1) |-> 0]
    /\ notify = <<>>
    /\ pc = [t \in 1..k |-> "idle"]
    /\ idx = [t \in 1..k |-> 0]
    /\ held = [t \in 1..k |-> {}]
    /\ res = [t \in 1..k |-> NoRes]
    /\ seen = [t \in 1..k |-> {}]
    /\ blk = [t \in 1..k |-> FALSE]
    /\ rt = NoRT
    /\ hist = h
    /\ NoClear = FALSE
    /\ bufs = <<>>
    /\ b = [t \in 1..k |-> NoBuf]
    /\ cj = [t \in 1..k |-> 0]
    /\ wrote = {}
    /\ NoLimiter(k, "IndexPool")
    /\ lh = l

InitPool(k, h) == InitCallers(k, h, <<>>)

Init == InitPool(NProcs, TRUE)

\* Callers that Put only indices they hold.
Next ==
    \/ \E t \in Procs : Get(t)
    \/ \E t \in Procs : GetScan(t)
    \/ \E t \in Procs : GetWait(t)
    \/ \E t \in Procs : \E i \in held[t] : Put(t, i)
    \/ \E t \in Procs : PutStore(t)
    \/ \E t \in Procs : PutSignal(t)

Spec == Init /\ [][Next]_vars

\* Callers that Put any integer from -1 to n, held or not.
NextAny ==
    \/ \E t \in Procs : Get(t)
    \/ \E t \in Procs : GetScan(t)
    \/ \E t \in Procs : GetWait(t)
    \/ \E t \in Procs : \E i \in (-1)..n : Put(t, i)
    \/ \E t \in Procs : PutStore(t)
    \/ \E t \in Procs : PutSignal(t)

InitAny == InitPool(NProcsAny, FALSE)

SpecAny == InitAny /\ [][NextAny]_vars

\* The callers of Spec, with lh recorded for every Get.
InitBarge == InitCallers(NProcsBarge, TRUE, [t \in 1..NProcsBarge |-> NoLH])

SpecBarge == InitBarge /\ [][Next]_vars

(***************************************************************************)
(* MemPool (mempool.go): n regions of BufSize bytes, cut from one          *)
(* allocation, whose slots are kept by an IndexPool.  An address is the    *)
(* offset from the start of that allocation; n * BufSize stands for the    *)
(* address of any other allocation.                                        *)
(***************************************************************************)
Offsets == 0..(BufSize - 1)

\* bufs[i] = buf[i*size : (i+1)*size : (i+1)*size]: the Data pointer of region i
RegionAddr(i) == i * BufSize

ForeignAddr == n * BufSize

\* A match on any address inside the region.
DataMatchesInside(i, buf) == buf.Data \in RegionAddr(i)..(RegionAddr(i) + BufSize - 1)

\* SliceHeader(&p.bufs[i]).Data == SliceHeader(&b).Data
DataMatches(i, buf) == buf.Data = RegionAddr(i)

\* A clearing loop that leaves the byte as it is.
ClearValueKeep(v) == v

\* p.bufs[i][j] = 0
ClearValue(v) == 0

\* MemPool.Get is IndexPool.Get followed by indexing p.bufs: the actions Get,
\* GetScan and GetWait, whose result i stands for the buffer p.bufs[i].

\* The holder of region i stores a non-zero value at one of its bytes.
Write(t, i, j) ==
    /\ pc[t] = "idle"
    /\ i \in held[t]
    /\ bufs' = [bufs EXCEPT ![i][j] = 1]
    /\ wrote' = wrote \cup {i}
    /\ res' = [res EXCEPT ![t] = NoRes]
    /\ rt' = NoRT
    /\ UNCHANGED <<n, indices, notify, pc, idx, held, seen, blk, hist, NoClear, b, cj, limvars, fixvars>>

\* A call of MemPool.Put(b) with b's Data pointer d and length l.  From here
\* on the caller no longer touches the region that starts at d.
MemPut(t, d, l) ==
    /\ pc[t] = "idle"
    /\ pc' = [pc EXCEPT ![t] = "match"]
    /\ b' = [b EXCEPT ![t] = [Data |-> d, Len |-> l]]
    /\ held' = [held EXCEPT ![t] = {i \in @ : RegionAddr(i) # d}]
    /\ res' = [res EXCEPT ![t] = NoRes]
    /\ blk' = [blk EXCEPT ![t] = FALSE]
    /\ rt' = NoRT
    /\ UNCHANGED <<n, indices, notify, idx, seen, hist, NoClear, bufs, cj, wrote, limvars, fixvars>>

\* for i := range p.bufs: the first region whose Data pointer matches b's, or
\* the panic after the loop.  The slice headers compared are never written, so
\* the loop is one step.
MemPutScan(t) ==
    /\ pc[t] = "match"
    /\ IF \E i \in Slots : DataMatches(i, b[t])
       THEN LET i == CHOOSE k \in Slots :
                       /\ DataMatches(k, b[t])
                       /\ \A m \in Slots : DataMatches(m, b[t]) => k <= m
            IN  /\ pc' = [pc EXCEPT ![t] = IF NoClear THEN "mput" ELSE "clear"]
                /\ idx' = [idx EXCEPT ![t] = i]
                /\ UNCHANGED res
       ELSE /\ pc' = [pc EXCEPT ![t] = "idle"]
            /\ res' = [res EXCEPT ![t] =
                         [op |-> "MemPut", val |-> b[t].Data, panic |-> TRUE]]
            /\ UNCHANGED idx
    /\ b' = [b EXCEPT ![t] = NoBuf]
    /\ UNCHANGED <<n, indices, notify, held, seen, blk, rt, hist, NoClear, bufs, cj, wrote, limvars, fixvars>>

\* A clearing loop that never ends.
ClearDoneNever(j) == FALSE

\* for j := range p.bufs[i]: the loop is over after the last byte.
ClearDone(j) == j + 1 >= BufSize

\* for j := range p.bufs[i] { p.bufs[i][j] = 0 }: one byte per step.
MemClear(t) ==
    /\ pc[t] = "clear"
    /\ bufs' = [bufs EXCEPT ![idx[t]][cj[t]] = ClearValue(@)]
    /\ IF ~ClearDone(cj[t])
       THEN /\ cj' = [cj EXCEPT ![t] = @ + 1]
            /\ UNCHANGED pc
       ELSE /\ cj' = [cj EXCEPT ![t] = 0]
            /\ pc' = [pc EXCEPT ![t] = "mput"]
    /\ UNCHANGED <<n, indices, notify, idx, held, res, seen, blk, rt, hist, NoClear, b, wrote, limvars, fixvars>>

\* p.indices.Put(i), called by MemPool.Put.
MemPutIndex(t) ==
    /\ pc[t] = "mput"
    /\ PutCheck(t, idx[t])
    /\ UNCHANGED <<memvars, limvars, fixvars>>

\* The addresses a caller passes to MemPool.Put: any address inside a region
\* it holds (b[k:] moves Data by k), or the address of another allocation.
PutAddrs(t) ==
    {RegionAddr(i) + k : i \in held[t], k \in Offsets} \cup {ForeignAddr}

\* NewMemPool(n, BufSize) for n in 1..MaxN, with NoClear set or not before
\* the pool is used.
InitMem ==
    /\ n \in 1..MaxN
    /\ indices = [i \in 0..(n - 1) |-> 0]
    /\ notify = <<>>
    /\ pc = [t \in 1..NProcsMem |-> "idle"]
    /\ idx = [t \in 1..NProcsMem |-> 0]
    /\ held = [t \in 1..NProcsMem |-> {}]
    /\ res = [t \in 1..NProcsMem |-> NoRes]
    /\ seen = [t \in 1..NProcsMem |-> {}]
    /\ blk = [t \in 1..NProcsMem |-> FALSE]
    /\ rt = NoRT
    /\ hist = FALSE
    /\ NoClear \in BOOLEAN
    /\ bufs = [i \in 0..(n - 1) |-> [j \in Offsets |-> 0]]
    /\ b = [t \in 1..NProcsMem |-> NoBuf]
    /\ cj = [t \in 1..NProcsMem |-> 0]
    /\ wrote = {}
    /\ NoLimiter(NProcsMem, "MemPool")
    /\ lh = <<>>

\* Callers that Put only buffers they hold (resliced or not) or buffers of
\* their own making, and write only to buffers they hold.
NextMem ==
    \/ \E t \in Procs : Get(t)
    \/ \E t \in Procs : GetScan(t)
    \/ \E t \in Procs : GetWait(t)
    \/ \E t \in Procs : \E i \in held[t] : \E j \in Offsets : Write(t, i, j)
    \/ \E t \in Procs : \E d \in PutAddrs(t) : \E l \in 0..BufSize : MemPut(t, d, l)
    \/ \E t \in Procs : MemPutScan(t)
    \/ \E t \in Procs : MemClear(t)
    \/ \E t \in Procs : MemPutIndex(t)
    \/ \E t \in Procs : PutStore(t)
    \/ \E t \in Procs : PutSignal(t)

SpecMem == InitMem /\ [][NextMem]_vars

(***************************************************************************)
(* FixedPool: n buffers of BufSize bytes, each its own allocation, whose   *)
(* availability is the Len field of the slice header p.bufs[i]: Cap when   *)
(* available, 0 when taken.  Get's range clause copies the header with     *)
(* plain loads while other goroutines write its Len atomically; the load   *)
(* of a word yields a value the word held at some moment between the       *)
(* goroutine's previous and its next atomic operation, which is what a     *)
(* step of its own between the two gives.                                  *)
(***************************************************************************)
\* What the actions of the FixedPool leave alone.
fixunused == <<indices, seen, blk, rt, hist, NoClear, limvars, mu>>

\* A compare-and-swap on Len that does not compare.
FixedCompareAndSwapBlind(i) == TRUE

\* atomic.CompareAndSwapUintptr(&iHdr.Len, iHdr.Cap, 0) swaps iff Len = Cap.
FixedCompareAndSwap(i) == lens[i] = BufSize

\* for i, s := range p.bufs: the copy of p.bufs[i] into s at the start of
\* iteration i.
FixedCopyStep(t, i) ==
    /\ s' = [s EXCEPT ![t] = [Data |-> RegionAddr(i), Len |-> lens[i]]]
    /\ idx' = [idx EXCEPT ![t] = i]
    /\ pc' = [pc EXCEPT ![t] = "fcas"]

\* A call of FixedPool.Get, up to and including the copy of p.bufs[0].
FixedGet(t) ==
    /\ pc[t] = "idle"
    /\ FixedCopyStep(t, 0)
    /\ res' = [res EXCEPT ![t] = NoRes]
    /\ UNCHANGED <<n, notify, held, bufs, b, cj, wrote, lens, fixunused>>

\* The copy of p.bufs[i] at the start of a later iteration, or of the first
\* iteration of a pass after cond.Wait returned.
FixedCopy(t) ==
    /\ pc[t] = "fcopy"
    /\ FixedCopyStep(t, idx[t])
    /\ UNCHANGED <<n, notify, held, res, bufs, b, cj, wrote, lens, fixunused>>

\* The compare-and-swap of iteration i: claim the buffer and go on to clear
\* s, or go on to the next buffer, or to cond.Wait after the last one.
FixedCAS(t) ==
    /\ pc[t] = "fcas"
    /\ IF FixedCompareAndSwap(idx[t])
       THEN /\ lens' = [lens EXCEPT ![idx[t]] = 0]
            /\ pc' = [pc EXCEPT ![t] = "fclear"]
            /\ UNCHANGED idx
       ELSE /\ pc' = [pc EXCEPT ![t] = IF ScanDone(idx[t]) THEN "wait" ELSE "fcopy"]
            /\ idx' = [idx EXCEPT ![t] = IF ScanDone(idx[t]) THEN 0 ELSE @ + 1]
            /\ UNCHANGED lens
    /\ UNCHANGED <<n, notify, held, res, bufs, b, cj, wrote, s, fixunused>>

\* for j := range s { s[j] = 0 }: one store per step over the len(s) bytes
\* of the copy, then return s.
FixedClear(t) ==
    /\ pc[t] = "fclear"
    /\ IF cj[t] < s[t].Len
       THEN /\ bufs' = [bufs EXCEPT ![idx[t]][cj[t]] = 0]
            /\ cj' = [cj EXCEPT ![t] = @ + 1]
            /\ UNCHANGED <<pc, idx, held, res>>
       ELSE /\ pc' = [pc EXCEPT ![t] = "idle"]
            /\ held' = [held EXCEPT ![t] = @ \cup {idx[t]}]
            /\ res' = [res EXCEPT ![t] =
                         [op |-> "FixedGet", val |-> idx[t], panic |-> FALSE]]
            /\ idx' = [idx EXCEPT ![t] = 0]
            /\ cj' = [cj EXCEPT ![t] = 0]
            /\ UNCHANGED bufs
    /\ UNCHANGED <<n, notify, b, wrote, lens, s, fixunused>>

\* A call of FixedPool.Put(b) with b's Data pointer d and length l.  From
\* here on the caller no longer touches the buffer that starts at d.
FixedPut(t, d, l) ==
    /\ pc[t] = "idle"
    /\ pc' = [pc EXCEPT ![t] = "fmatch"]
    /\ b' = [b EXCEPT ![t] = [Data |-> d, Len |-> l]]
    /\ held' = [held EXCEPT ![t] = {i \in @ : RegionAddr(i) # d}]
    /\ res' = [res EXCEPT ![t] = NoRes]
    /\ s' = [s EXCEPT ![t] = NoBuf]
    /\ UNCHANGED <<n, notify, idx, bufs, cj, wrote, lens, fixunused>>

\* for i := range p.bufs: the first buffer whose Data pointer is b's, or the
\* panic after the loop.  The Data fields compared are never written, so the
\* loop is one step.
FixedPutScan(t) ==
    /\ pc[t] = "fmatch"
    /\ IF \E i \in Slots : DataMatches(i, b[t])
       THEN /\ pc' = [pc EXCEPT ![t] = "fstore"]
            /\ idx' = [idx EXCEPT ![t] =
                         CHOOSE k \in Slots : DataMatches(k, b[t])]
            /\ UNCHANGED res
       ELSE /\ pc' = [pc EXCEPT ![t] = "idle"]
            /\ res' = [res EXCEPT ![t] =
                         [op |-> "FixedPut", val |-> b[t].Data, panic |-> TRUE]]
            /\ UNCHANGED idx
    /\ b' = [b EXCEPT ![t] = NoBuf]
    /\ UNCHANGED <<n, notify, held, bufs, cj, wrote, lens, s, fixunused>>

\* atomic.StoreUintptr(&iHdr.Len, iHdr.Cap)
FixedStore(t) ==
    /\ pc[t] = "fstore"
    /\ lens' = [lens EXCEPT ![idx[t]] = BufSize]
    /\ pc' = [pc EXCEPT ![t] = "fsignal"]
    /\ UNCHANGED <<n, notify, idx, held, res, bufs, b, cj, wrote, s, fixunused>>

\* p.cond.Signal(): wakes the goroutine that has waited longest, if there is
\* one, which starts a new pass at buffer 0; then Put returns.
FixedSignal(t) ==
    /\ pc[t] = "fsignal"
    /\ IF notify = <<>>
       THEN /\ pc' = [pc EXCEPT ![t] = "idle"]
            /\ UNCHANGED notify
       ELSE /\ pc' = [pc EXCEPT ![t] = "idle", ![Head(notify)] = "fcopy"]
            /\ notify' = Tail(notify)
    /\ idx' = [idx EXCEPT ![t] = 0]
    /\ res' = [res EXCEPT ![t] = [op |-> "FixedPut", val |-> idx[t], panic |-> FALSE]]
    /\ UNCHANGED <<n, held, bufs, b, cj, wrote, lens, s, fixunused>>

\* NewFixedPool(n, BufSize) for n in 1..MaxN, and k goroutines that have
\* called nothing yet.
InitFixed(k) ==
    /\ n \in 1..MaxN
    /\ lens = [i \in 0..(n - 1) |-> BufSize]
    /\ bufs = [i \in 0..(n - 1) |-> [j \in Offsets |-> 0]]
    /\ notify = <<>>
    /\ pc = [t \in 1..k |-> "idle"]
    /\ idx = [t \in 1..k |-> 0]
    /\ held = [t \in 1..k |-> {}]
    /\ res = [t \in 1..k |-> NoRes]
    /\ s = [t \in 1..k |-> NoBuf]
    /\ b = [t \in 1..k |-> NoBuf]
    /\ cj = [t \in 1..k |-> 0]
    /\ wrote = {}
    /\ indices = <<>>
    /\ seen = <<>>
    /\ blk = <<>>
    /\ rt = NoRT
    /\ hist = FALSE
    /\ NoClear = FALSE
    /\ obj = "FixedPool"
    /\ ctor = NoCtor
    /\ limit = 0
    /\ inuse = 0
    /\ ln = <<>>
    /\ linuse = <<>>
    /\ recv = <<>>
    /\ net = 0
    /\ lres = NoLRes
    /\ lh = <<>>
    /\ mu = 0

\* The lengths of the buffers passed to Put: b[:0] and the like, or b as it
\* was returned.
FixedLens == {0, BufSize}

\* Callers that Put only buffers they hold, with the Data pointer Get
\* returned, and write only to buffers they hold.
NextFixed ==
    \/ \E t \in Procs : FixedGet(t)
    \/ \E t \in Procs : FixedCopy(t)
    \/ \E t \in Procs : FixedCAS(t)
    \/ \E t \in Procs : FixedClear(t)
    \/ \E t \in Procs : GetWait(t)
    \/ \E t \in Procs : \E i \in held[t] : \E j \in Offsets : Write(t, i, j)
    \/ \E t \in Procs : \E i \in held[t] : \E l \in FixedLens :
          FixedPut(t, RegionAddr(i), l)
    \/ \E t \in Procs : FixedPutScan(t)
    \/ \E t \in Procs : FixedStore(t)
    \/ \E t \in Procs : FixedSignal(t)

InitFixedHeld == InitFixed(NProcsFixed)

SpecFixed == InitFixedHeld /\ [][NextFixed]_vars

\* The addresses any caller may pass to Put: the start of any of the pool's
\* buffers, held by it or not, or the address of another allocation.
FixedAddrs == {RegionAddr(i) : i \in Slots} \cup {ForeignAddr}

\* Callers that Put any buffer.
NextFixedAny ==
    \/ \E t \in Procs : FixedGet(t)
    \/ \E t \in Procs : FixedCopy(t)
    \/ \E t \in Procs : FixedCAS(t)
    \/ \E t \in Procs : FixedClear(t)
    \/ \E t \in Procs : GetWait(t)
    \/ \E t \in Procs : \E d \in FixedAddrs : FixedPut(t, d, BufSize)
    \/ \E t \in Procs : FixedPutScan(t)
    \/ \E t \in Procs : FixedStore(t)
    \/ \E t \in Procs : FixedSignal(t)

InitFixedAny == InitFixed(NProcsFixedAny)

SpecFixedAny == InitFixedAny /\ [][NextFixedAny]_vars

(***************************************************************************)
(* mempool.MemPool: n buffers of BufSize bytes whose availability is the   *)
(* Len field of p.bufs[i], read and written only with p.mu held; p.cond's  *)
(* locker is p.mu.                                                         *)
(***************************************************************************)
\* What the actions of the mempool.MemPool leave alone.
muunused == <<indices, seen, blk, rt, hist, NoClear, bufs, cj, wrote, s, limfields>>

\* A call of mempool.MemPool.Get: the goroutine is at p.mu.Lock().
MuGet(t) ==
    /\ pc[t] = "idle"
    /\ pc' = [pc EXCEPT ![t] = "mlock"]
    /\ res' = [res EXCEPT ![t] = NoRes]
    /\ lh' = [lh EXCEPT ![t] = NoLH]
    /\ UNCHANGED <<n, lens, mu, notify, idx, held, b, muunused>>

\* p.mu.Lock() returns, in Get or at the end of cond.Wait.
MuLock(t) ==
    /\ pc[t] = "mlock"
    /\ mu = 0
    /\ mu' = t
    /\ pc' = [pc EXCEPT ![t] = "mscan"]
    /\ UNCHANGED <<n, lens, notify, idx, held, res, b, lh, muunused>>

\* A Get that unlocks the mutex as soon as its pass has found nothing.
MuAfterScanReleased(t) == 0

\* Nothing between the end of the range loop and p.cond.Wait() unlocks p.mu:
\* it is still held by t.
MuAfterScan(t) == t

\* for i, s := range p.bufs: one pass, made with p.mu held, so that no Len
\* changes during it.  The first buffer with len(s) != 0 gets Len 0, or the
\* goroutine goes on to cond.Wait.
MuScan(t) ==
    /\ pc[t] = "mscan"
    /\ IF \E i \in Slots : lens[i] # 0
       THEN LET i == CHOOSE k \in Slots :
                       /\ lens[k] # 0
                       /\ \A m \in Slots : lens[m] # 0 => k <= m
            IN  /\ lens' = [lens EXCEPT ![i] = 0]
                /\ idx' = [idx EXCEPT ![t] = i]
                /\ pc' = [pc EXCEPT ![t] = "munlock"]
                /\ UNCHANGED mu
       ELSE /\ pc' = [pc EXCEPT ![t] = "mwait"]
            /\ mu' = MuAfterScan(t)
            /\ UNCHANGED <<lens, idx>>
    /\ UNCHANGED <<n, notify, held, res, b, lh, muunused>>

\* p.mu.Unlock(); return s
MuUnlock(t) ==
    /\ pc[t] = "munlock"
    /\ mu' = 0
    /\ pc' = [pc EXCEPT ![t] = "idle"]
    /\ held' = [held EXCEPT ![t] = @ \cup {idx[t]}]
    /\ res' = [res EXCEPT ![t] = [op |-> "MuGet", val |-> idx[t], panic |-> FALSE]]
    /\ idx' = [idx EXCEPT ![t] = 0]
    /\ UNCHANGED <<n, lens, notify, b, lh, muunused>>

\* p.cond.Wait() up to the suspension: the goroutine joins the notify list
\* and then unlocks p.mu.  A Signal between the two finds it on the list as
\* one after the two does.
MuWait(t) ==
    /\ pc[t] = "mwait"
    /\ notify' = Append(notify, t)
    /\ mu' = 0
    /\ pc' = [pc EXCEPT ![t] = "parked"]
    /\ UNCHANGED <<n, lens, idx, held, res, b, lh, muunused>>

\* A call of mempool.MemPool.Put(b) with b's Data pointer d and length l.
MuPut(t, d, l) ==
    /\ pc[t] = "idle"
    /\ pc' = [pc EXCEPT ![t] = "pmatch"]
    /\ b' = [b EXCEPT ![t] = [Data |-> d, Len |-> l]]
    /\ held' = [held EXCEPT ![t] = {i \in @ : RegionAddr(i) # d}]
    /\ res' = [res EXCEPT ![t] = NoRes]
    /\ UNCHANGED <<n, lens, mu, notify, idx, lh, muunused>>

\* for i := range p.bufs: the first buffer whose Data pointer is b's, or the
\* panic after the loop.  The loop reads only Data fields, which are never
\* written, and is made without p.mu: it is one step.
MuPutScan(t) ==
    /\ pc[t] = "pmatch"
    /\ IF \E i \in Slots : DataMatches(i, b[t])
       THEN /\ pc' = [pc EXCEPT ![t] = "plock"]
            /\ idx' = [idx EXCEPT ![t] =
                         CHOOSE k \in Slots : DataMatches(k, b[t])]
            /\ UNCHANGED res
       ELSE /\ pc' = [pc EXCEPT ![t] = "idle"]
            /\ res' = [res EXCEPT ![t] =
                         [op |-> "MuPut", val |-> b[t].Data, panic |-> TRUE]]
            /\ UNCHANGED idx
    /\ b' = [b EXCEPT ![t] = NoBuf]
    /\ UNCHANGED <<n, lens, mu, notify, held, lh, muunused>>

\* p.mu.Lock() returns in Put.
MuPutLock(t) ==
    /\ pc[t] = "plock"
    /\ mu = 0
    /\ mu' = t
    /\ pc' = [pc EXCEPT ![t] = "pstore"]
    /\ UNCHANGED <<n, lens, notify, idx, held, res, b, lh, muunused>>

\* iHdr.Len = iHdr.Cap
MuPutStore(t) ==
    /\ pc[t] = "pstore"
    /\ lens' = [lens EXCEPT ![idx[t]] = BufSize]
    /\ pc' = [pc EXCEPT ![t] = "punlock"]
    /\ UNCHANGED <<n, mu, notify, idx, held, res, b, lh, muunused>>

\* p.mu.Unlock() in Put
MuPutUnlock(t) ==
    /\ pc[t] = "punlock"
    /\ mu' = 0
    /\ pc' = [pc EXCEPT ![t] = "psignal"]
    /\ UNCHANGED <<n, lens, notify, idx, held, res, b, lh, muunused>>

\* p.cond.Signal(): wakes the goroutine that has waited longest, if there is
\* one, which goes on to lock p.mu again at the end of cond.Wait; then Put
\* returns.
MuSignal(t) ==
    /\ pc[t] = "psignal"
    /\ IF notify = <<>>
       THEN /\ pc' = [pc EXCEPT ![t] = "idle"]
            /\ UNCHANGED <<notify, lh>>
       ELSE /\ pc' = [pc EXCEPT ![t] = "idle", ![Head(notify)] = "mlock"]
            /\ notify' = Tail(notify)
            /\ lh' = LHWake(Head(notify))
    /\ idx' = [idx EXCEPT ![t] = 0]
    /\ res' = [res EXCEPT ![t] = [op |-> "MuPut", val |-> idx[t], panic |-> FALSE]]
    /\ UNCHANGED <<n, lens, mu, held, b, muunused>>

\* mempool.New(n, BufSize) for n in 1..MaxN, and NProcsMutex goroutines that
\* have called nothing yet; lh records which Gets a Signal has woken.
InitMutex ==
    /\ n \in 1..MaxN
    /\ lens = [i \in 0..(n - 1) |-> BufSize]
    /\ mu = 0
    /\ notify = <<>>
    /\ pc = [t \in 1..NProcsMutex |-> "idle"]
    /\ idx = [t \in 1..NProcsMutex |-> 0]
    /\ held = [t \in 1..NProcsMutex |-> {}]
    /\ res = [t \in 1..NProcsMutex |-> NoRes]
    /\ b = [t \in 1..NProcsMutex |-> NoBuf]
    /\ s = <<>>
    /\ bufs = <<>>
    /\ cj = <<>>
    /\ wrote = {}
    /\ indices = <<>>
    /\ seen = <<>>
    /\ blk = <<>>
    /\ rt = NoRT
    /\ hist = TRUE
    /\ NoClear = FALSE
    /\ obj = "mempool.MemPool"
    /\ ctor = NoCtor
    /\ limit = 0
    /\ inuse = 0
    /\ ln = <<>>
    /\ linuse = <<>>
    /\ recv = <<>>
    /\ net = 0
    /\ lres = NoLRes
    /\ lh = [t \in 1..NProcsMutex |-> NoLH]

\* The steps of goroutine t that need nothing but the scheduler.
MuRun(t) ==
    \/ MuScan(t)
    \/ MuUnlock(t)
    \/ MuWait(t)
    \/ MuPutScan(t)
    \/ MuPutStore(t)
    \/ MuPutUnlock(t)
    \/ MuSignal(t)

\* The steps of goroutine t in which p.mu.Lock() returns.
MuAcquire(t) == MuLock(t) \/ MuPutLock(t)

\* Callers that Put only buffers they hold, with the Data pointer Get
\* returned.
NextMutex ==
    \/ \E t \in Procs : MuGet(t)
    \/ \E t \in Procs : MuLock(t)
    \/ \E t \in Procs : MuScan(t)
    \/ \E t \in Procs : MuUnlock(t)
    \/ \E t \in Procs : MuWait(t)
    \/ \E t \in Procs : \E i \in held[t] : \E l \in FixedLens :
          MuPut(t, RegionAddr(i), l)
    \/ \E t \in Procs : MuPutScan(t)
    \/ \E t \in Procs : MuPutLock(t)
    \/ \E t \in Procs : MuPutStore(t)
    \/ \E t \in Procs : MuPutUnlock(t)
    \/ \E t \in Procs : MuSignal(t)

SpecMutex == InitMutex /\ [][NextMutex]_vars

\* The scheduler runs every goroutine that can run (weak fairness of its
\* steps), and sync.Mutex hands the lock to a goroutine that keeps waiting
\* for it (its starvation mode: strong fairness of Lock).  Nothing obliges
\* a caller to call Get or Put.
FairMutex ==
    \A t \in 1..NProcsMutex :
        /\ WF_vars(MuRun(t))
        /\ SF_vars(MuAcquire(t))

SpecMutexFair == SpecMutex /\ FairMutex

(***************************************************************************)
(* Limiter and MemLimiter.  l.inuse, l.limit and Get's locals are int64    *)
(* (int is as wide): sums and differences wrap around.                     *)
(***************************************************************************)
MaxInt64 == 2^(IntBits - 1) - 1
MinInt64 == -(2^(IntBits - 1))

\* The int64 that x is stored as.
Wrap64(x) == ((x - MinInt64) % (2^IntBits)) + MinInt64

\* net + d as long as an int64 can hold it; once it cannot, net stays at the
\* value next to the int64s that it passed.
NetAdd(d) ==
    IF ~hist \/ net < MinInt64 \/ net > MaxInt64 THEN net
    ELSE IF net + d > MaxInt64 THEN MaxInt64 + 1
    ELSE IF net + d < MinInt64 THEN MinInt64 - 1
    ELSE net + d

\* The pool's variables that no step of the Limiter reads or writes.
unused == <<n, indices, idx, held, res, seen, blk, rt, hist, NoClear, bufs, cj, wrote, obj, ctor,
            fixvars>>

\* How res names a call of op on the receiver r.
OpName(r, op) == IF r = "MemLimiter" THEN "Mem" \o op ELSE op

\* A check that also rejects a request for the whole limit.
GetInvalidAtLimit(k) == k < 0 \/ k >= limit

\* n < 0, or int64(n) > l.limit
GetInvalid(k) == k < 0 \/ k > limit

\* inuse := atomic.LoadInt64(&l.inuse); new := inuse + int64(n); then the
\* left operand of &&: on to the compare-and-swap when new <= l.limit,
\* otherwise to cond.Wait.
LoadStep(t, k) ==
    /\ linuse' = [linuse EXCEPT ![t] = inuse]
    /\ ln' = [ln EXCEPT ![t] = k]
    /\ pc' = [pc EXCEPT ![t] = IF Wrap64(inuse + k) <= limit THEN "cas" ELSE "wait"]
    /\ lh' = [lh EXCEPT ![t] = [short |-> hist /\ ~(Wrap64(inuse + k) <= limit),
                                woke |-> hist /\ pc[t] = "load" /\ @.woke]]
    /\ UNCHANGED lres

\* A call of Get(n) on the receiver r, up to and including its first load.
GetCall(t, r, k) ==
    /\ pc[t] = "idle"
    /\ IF GetInvalid(k)
       THEN /\ lres' = [op |-> OpName(r, "Get"), val |-> k, panic |-> TRUE]
            /\ UNCHANGED <<pc, ln, linuse, lh, recv>>
       ELSE /\ LoadStep(t, k)
            /\ recv' = [recv EXCEPT ![t] = r]
    /\ UNCHANGED <<limit, inuse, net, notify, b, unused>>

\* Limiter.Get(n)
LimiterGet(t, k) == GetCall(t, "Limiter", k)

\* MemLimiter.Get(n): m.l.Get(n), then make([]byte, n) once that has returned.
MemLimiterGet(t, k) == GetCall(t, "MemLimiter", k)

\* The load of a Get that a Broadcast has woken.
LimiterLoad(t) ==
    /\ pc[t] = "load"
    /\ LoadStep(t, ln[t])
    /\ UNCHANGED <<limit, inuse, recv, net, notify, b, unused>>

\* atomic.CompareAndSwapInt64(&l.inuse, inuse, new): Get returns when it
\* swapped (a MemLimiter's Get returns a buffer of n bytes), and goes to
\* cond.Wait when it did not.
LimiterCAS(t) ==
    /\ pc[t] = "cas"
    /\ IF inuse = linuse[t]
       THEN /\ inuse' = Wrap64(linuse[t] + ln[t])
            /\ pc' = [pc EXCEPT ![t] = "idle"]
            /\ lres' = [op |-> OpName(recv[t], "Get"), val |-> ln[t], panic |-> FALSE]
            /\ net' = NetAdd(ln[t])
            /\ ln' = [ln EXCEPT ![t] = 0]
            /\ lh' = [lh EXCEPT ![t] = NoLH]
            /\ recv' = [recv EXCEPT ![t] = "Limiter"]
       ELSE /\ pc' = [pc EXCEPT ![t] = "wait"]
            /\ UNCHANGED <<inuse, lres, net, ln, lh, recv>>
    /\ linuse' = [linuse EXCEPT ![t] = 0]
    /\ UNCHANGED <<limit, notify, b, unused>>

\* l.cond.Wait(): the goroutine joins the notify list and is suspended.  The
\* locker is a no-op, so nothing orders this step after a concurrent Put.
LimiterWait(t) ==
    /\ pc[t] = "wait"
    /\ notify' = Append(notify, t)
    /\ pc' = [pc EXCEPT ![t] = "parked"]
    /\ linuse' = [linuse EXCEPT ![t] = 0]
    /\ UNCHANGED <<limit, inuse, ln, recv, net, lh, lres, b, unused>>

\* An underflow check that never fires.
PutUnderflowNever(v) == FALSE

\* atomic.AddInt64(&l.inuse, int64(-n)) < 0, for the value v that was stored
PutUnderflow(v) == v < 0

\* A call of Put on the receiver r, up to and including the atomic add of
\* -n for n = k: panic, or on to the Broadcast.  The add is done before its
\* result is looked at.  a is the argument as res records it, h the slice
\* that was passed (NoBuf for a Limiter).
PutCall(t, r, k, a, h) ==
    /\ pc[t] = "idle"
    /\ IF k < 0
       THEN /\ lres' = [op |-> OpName(r, "Put"), val |-> a, panic |-> TRUE]
            /\ UNCHANGED <<inuse, pc, ln, recv, b>>
       ELSE /\ inuse' = Wrap64(inuse - k)
            /\ IF PutUnderflow(inuse')
               THEN /\ lres' = [op |-> OpName(r, "Put"), val |-> a, panic |-> TRUE]
                    /\ UNCHANGED <<pc, ln, recv, b>>
               ELSE /\ pc' = [pc EXCEPT ![t] = "bcast"]
                    /\ ln' = [ln EXCEPT ![t] = k]
                    /\ recv' = [recv EXCEPT ![t] = r]
                    /\ b' = [b EXCEPT ![t] = h]
                    /\ UNCHANGED lres
    /\ UNCHANGED <<limit, linuse, net, lh, notify, unused>>

\* Limiter.Put(n)
LimiterPut(t, k) == PutCall(t, "Limiter", k, k, NoBuf)

\* A length other than the slice's.
BufLenOne(h) == 1

\* len(b)
BufLen(h) == h.Len

\* MemLimiter.Put(b), for b with Data pointer d and length l: m.l.Put(len(b)).
MemLimiterPut(t, d, l) ==
    PutCall(t, "MemLimiter", BufLen([Data |-> d, Len |-> l]), l, [Data |-> d, Len |-> l])

\* l.cond.Broadcast(): wakes every goroutine on the notify list, each of
\* which goes back to the top of Get's loop; then Put returns.
LimiterBroadcast(t) ==
    /\ pc[t] = "bcast"
    /\ pc' = [u \in Procs |->
                IF u = t THEN "idle"
                ELSE IF \E k \in 1..Len(notify) : notify[k] = u THEN "load"
                ELSE pc[u]]
    /\ lh' = [u \in Procs |->
                IF \E k \in 1..Len(notify) : notify[k] = u
                THEN [lh[u] EXCEPT !.woke = hist]
                ELSE lh[u]]
    /\ notify' = <<>>
    /\ lres' = [op |-> OpName(recv[t], "Put"),
                  val |-> IF recv[t] = "MemLimiter" THEN b[t].Len ELSE ln[t],
                  panic |-> FALSE]
    /\ ln' = [ln EXCEPT ![t] = 0]
    /\ recv' = [recv EXCEPT ![t] = "Limiter"]
    /\ b' = [b EXCEPT ![t] = NoBuf]
    /\ net' = NetAdd(-ln[t])
    /\ UNCHANGED <<limit, inuse, linuse, unused>>

\* The limits NewLimiter is given: the small ones, and the largest int64.
Limits == (0..MaxLimit) \cup {MaxInt64}

\* NewLimiter(limit) for limit in Limits, and k goroutines that have called
\* nothing yet and have no locals of a pool call; h says whether net and lh
\* are recorded.
InitLimiter(k, h) ==
    /\ obj = "Limiter"
    /\ ctor = NoCtor
    /\ limit \in Limits
    /\ inuse = 0
    /\ ln = [t \in 1..k |-> 0]
    /\ linuse = [t \in 1..k |-> 0]
    /\ recv = [t \in 1..k |-> "Limiter"]
    /\ net = 0
    /\ lh = [t \in 1..k |-> NoLH]
    /\ notify = <<>>
    /\ pc = [t \in 1..k |-> "idle"]
    /\ res = <<>>
    /\ lres = NoLRes
    /\ b = [t \in 1..k |-> NoBuf]
    /\ hist = h
    /\ n = 0
    /\ indices = <<>>
    /\ idx = <<>>
    /\ held = <<>>
    /\ seen = <<>>
    /\ blk = <<>>
    /\ rt = NoRT
    /\ NoClear = FALSE
    /\ bufs = <<>>
    /\ cj = <<>>
    /\ wrote = {}
    /\ NoFixed

InitLim == InitLimiter(NProcsLim, TRUE)

\* The amounts callers ask for: one unit, or the whole limit.
Amounts == {k \in {1, limit} : k <= limit}

\* Callers that Get between 1 and limit units and Put no more units than are
\* in use.
NextLim ==
    \/ \E t \in Procs : \E k \in Amounts : LimiterGet(t, k)
    \/ \E t \in Procs : LimiterLoad(t)
    \/ \E t \in Procs : LimiterCAS(t)
    \/ \E t \in Procs : LimiterWait(t)
    \/ \E t \in Procs : \E k \in Amounts : k <= inuse /\ LimiterPut(t, k)
    \/ \E t \in Procs : LimiterBroadcast(t)

SpecLim == InitLim /\ [][NextLim]_vars

InitLimAny == InitLimiter(NProcsLimAny, FALSE)

\* The amounts any caller may pass: -1, 0, 1, the limit and, when an int
\* can hold it, one more than the limit.
AnyAmounts == {k \in {-1, 0, 1, limit, limit + 1} : k <= MaxInt64}

\* Callers of the Limiter with any amount.
NextLimAny ==
    \/ \E t \in Procs : \E k \in AnyAmounts : LimiterGet(t, k)
    \/ \E t \in Procs : LimiterLoad(t)
    \/ \E t \in Procs : LimiterCAS(t)
    \/ \E t \in Procs : LimiterWait(t)
    \/ \E t \in Procs : \E k \in AnyAmounts : LimiterPut(t, k)
    \/ \E t \in Procs : LimiterBroadcast(t)

SpecLimAny == InitLimAny /\ [][NextLimAny]_vars

\* The Data pointers a caller passes to MemLimiter.Put: 0 for the start of a
\* buffer that Get returned, 1 for any other address.
LimAddrs == 0..1

\* The lengths of the slices a caller passes to MemLimiter.Put.
Lens == {0, 1, limit}

\* Callers of a MemLimiter, through which every call of its Limiter goes,
\* with any amount and any slice.
NextMemLim ==
    \/ \E t \in Procs : \E k \in AnyAmounts : MemLimiterGet(t, k)
    \/ \E t \in Procs : LimiterLoad(t)
    \/ \E t \in Procs : LimiterCAS(t)
    \/ \E t \in Procs : LimiterWait(t)
    \/ \E t \in Procs : \E d \in LimAddrs : \E l \in Lens : MemLimiterPut(t, d, l)
    \/ \E t \in Procs : LimiterBroadcast(t)

SpecMemLim == InitLimAny /\ [][NextMemLim]_vars

(***************************************************************************)
(* The constructors.  Nothing exists at first; a constructor that returns  *)
(* gives the goroutines the object they call from then on.                 *)
(***************************************************************************)
\* The pool's and the limiter's fields, which a constructor that panics
\* leaves as they are.
fields == <<n, indices, NoClear, bufs, limit, inuse>>

\* What the goroutines are doing: untouched by a constructor.
callers == <<notify, pc, idx, held, res, seen, blk, rt, hist, b, cj, wrote,
             ln, linuse, recv, net, lres, lh, fixvars>>

\* n <= 0
NewIndexPoolInvalid(k) == k <= 0

\* NewIndexPool(n)
NewIndexPool(k) ==
    /\ obj = "none"
    /\ ctor' = [fn |-> "NewIndexPool", n |-> k, size |-> 0,
                panic |-> NewIndexPoolInvalid(k)]
    /\ IF NewIndexPoolInvalid(k)
       THEN UNCHANGED <<obj, fields>>
       ELSE /\ obj' = "IndexPool"
            /\ n' = k
            /\ indices' = [i \in 0..(k - 1) |-> 0]
            /\ UNCHANGED <<NoClear, bufs, limit, inuse>>
    /\ UNCHANGED callers

\* n <= 0 || size <= 0
NewMemPoolInvalid(k, size) == k <= 0 \/ size <= 0

\* NewMemPool(n, size), and the caller's setting of NoClear to nc before the
\* pool is used.
NewMemPool(k, size, nc) ==
    /\ obj = "none"
    /\ ctor' = [fn |-> "NewMemPool", n |-> k, size |-> size,
                panic |-> NewMemPoolInvalid(k, size)]
    /\ IF NewMemPoolInvalid(k, size)
       THEN UNCHANGED <<obj, fields>>
       ELSE /\ obj' = "MemPool"
            /\ n' = k
            /\ indices' = [i \in 0..(k - 1) |-> 0]
            /\ bufs' = [i \in 0..(k - 1) |-> [j \in 0..(size - 1) |-> 0]]
            /\ NoClear' = nc
            /\ UNCHANGED <<limit, inuse>>
    /\ UNCHANGED callers

\* A check that lets -1 through.
NewLimiterInvalidBelow(c) == c < -1

\* limit < 0
NewLimiterInvalid(c) == c < 0

\* NewLimiter(limit)
NewLimiter(c) ==
    /\ obj = "none"
    /\ ctor' = [fn |-> "NewLimiter", n |-> c, size |-> 0,
                panic |-> NewLimiterInvalid(c)]
    /\ IF NewLimiterInvalid(c)
       THEN UNCHANGED <<obj, fields>>
       ELSE /\ obj' = "Limiter"
            /\ limit' = c
            /\ inuse' = 0
            /\ UNCHANGED <<n, indices, NoClear, bufs>>
    /\ UNCHANGED callers

\* Nothing has been constructed, and no goroutine has called anything.
InitNew ==
    /\ obj = "none"
    /\ ctor = NoCtor
    /\ n = 0
    /\ indices = <<>>
    /\ NoClear = FALSE
    /\ bufs = <<>>
    /\ limit = 0
    /\ inuse = 0
    /\ notify = <<>>
    /\ pc = [t \in 1..NProcsNew |-> "idle"]
    /\ idx = [t \in 1..NProcsNew |-> 0]
    /\ held = [t \in 1..NProcsNew |-> {}]
    /\ res = [t \in 1..NProcsNew |-> NoRes]
    /\ seen = [t \in 1..NProcsNew |-> {}]
    /\ blk = [t \in 1..NProcsNew |-> FALSE]
    /\ rt = NoRT
    /\ hist = FALSE
    /\ b = [t \in 1..NProcsNew |-> NoBuf]
    /\ cj = [t \in 1..NProcsNew |-> 0]
    /\ wrote = {}
    /\ ln = [t \in 1..NProcsNew |-> 0]
    /\ linuse = [t \in 1..NProcsNew |-> 0]
    /\ recv = [t \in 1..NProcsNew |-> "Limiter"]
    /\ net = 0
    /\ lres = NoLRes
    /\ lh = [t \in 1..NProcsNew |-> NoLH]
    /\ NoFixed

\* The counts given to NewIndexPool and NewMemPool.
Counts == (-1)..MaxN

\* The sizes given to NewMemPool.
Sizes == {-1, 0, BufSize}

\* The limits given to NewLimiter.
NewLimits == (-1)..MaxLimit

Pools == {"IndexPool", "MemPool"}

\* Any constructor call, then any calls of the object it returned: of an
\* IndexPool as in NextAny, of a MemPool as in NextMem, of a Limiter as in
\* NextLimAny.
NextNew ==
    \/ \E k \in Counts : NewIndexPool(k)
    \/ \E k \in Counts : \E size \in Sizes : \E nc \in BOOLEAN : NewMemPool(k, size, nc)
    \/ \E c \in NewLimits : NewLimiter(c)
    \/ obj \in Pools /\ \E t \in Procs : Get(t)
    \/ obj \in Pools /\ \E t \in Procs : GetScan(t)
    \/ obj \in Pools /\ \E t \in Procs : GetWait(t)
    \/ obj = "IndexPool" /\ \E t \in Procs : \E i \in (-1)..n : Put(t, i)
    \/ obj \in Pools /\ \E t \in Procs : PutStore(t)
    \/ obj \in Pools /\ \E t \in Procs : PutSignal(t)
    \/ obj = "MemPool" /\ \E t \in Procs : \E i \in held[t] : \E j \in Offsets : Write(t, i, j)
    \/ obj = "MemPool" /\ \E t \in Procs : \E d \in PutAddrs(t) : \E l \in 0..BufSize :
          MemPut(t, d, l)
    \/ obj = "MemPool" /\ \E t \in Procs : MemPutScan(t)
    \/ obj = "MemPool" /\ \E t \in Procs : MemClear(t)
    \/ obj = "MemPool" /\ \E t \in Procs : MemPutIndex(t)
    \/ obj = "Limiter" /\ \E t \in Procs : \E k \in AnyAmounts : LimiterGet(t, k)
    \/ obj = "Limiter" /\ \E t \in Procs : LimiterLoad(t)
    \/ obj = "Limiter" /\ \E t \in Procs : LimiterCAS(t)
    \/ obj = "Limiter" /\ \E t \in Procs : LimiterWait(t)
    \/ obj = "Limiter" /\ \E t \in Procs : \E k \in AnyAmounts : LimiterPut(t, k)
    \/ obj = "Limiter" /\ \E t \in Procs : LimiterBroadcast(t)

SpecNew == InitNew /\ [][NextNew]_vars

(***************************************************************************)
(* Properties of Limiter and MemLimiter                                    *)
(***************************************************************************)
\* The goroutines that Broadcast wakes.
Waiters == {notify[k] : k \in 1..Len(notify)}

\* The request of goroutine t fits: U + n <= C, as integers.
Room(t) == inuse + ln[t] <= limit

\* C11: the in-use counter stays between 0 and the limit, whatever Get and
\* Put calls are made and however they interleave.
C11_Bound == 0 <= inuse /\ inuse <= limit

C14_BlockedGetReturns ==
    /\ [](~ \E t \in Procs :
              /\ pc[t] = "parked" /\ lh[t].short
              /\ Room(t)
              /\ \A u \in Procs : pc[u] \in {"idle", "parked"}
              /\ inuse = 0)
    /\ [][\A t \in Procs : (pc[t] = "cas" /\ pc'[t] = "idle") => Room(t)]_vars

\* C15: a MemLimiter's Get(n) returns a buffer of n bytes in the step that
\* reserves n units, and its Put(b) subtracts exactly len(b) from inuse,
\* whatever b's Data pointer is.
C15_MemLimiter ==
    [][/\ \A t \in Procs :
            /\ (pc[t] = "cas" /\ pc'[t] = "idle")
               => /\ lres' = [op |-> "MemGet", val |-> ln[t], panic |-> FALSE]
                  /\ inuse' = Wrap64(inuse + ln[t])
            /\ (pc[t] = "idle" /\ pc'[t] = "bcast")
               => /\ inuse' = Wrap64(inuse - b'[t].Len)
                  /\ b'[t].Data \in LimAddrs
       /\ (lres' # lres /\ lres'.op = "MemPut" /\ lres'.panic)
          => /\ lres'.val >= 0
             /\ inuse' = Wrap64(inuse - lres'.val)]_vars

\* C15 witness: with the whole limit of 2 or more handed out by Get, a Put
\* of a 1-byte slice that no Get returned has released 1 unit.
C15_Witness ==
    /\ limit >= 2
    /\ inuse = limit - 1
    /\ lres = [op |-> "MemGet", val |-> limit, panic |-> FALSE]
    /\ \E t \in Procs : pc[t] = "bcast" /\ b[t] = [Data |-> 1, Len |-> 1]

\* C18: when no Put is between its add and its return, inuse equals the sum
\* of n over the Gets that have returned less the sum of n over the Puts
\* that have returned; and a Get is granted only in a step in which inuse
\* still is the value it loaded and inuse + n <= limit.
C18_Conservation ==
    /\ []((\A t \in Procs : pc[t] # "bcast") => inuse = net)
    /\ [][\A t \in Procs :
            (pc[t] = "cas" /\ pc'[t] = "idle")
            => inuse = linuse[t] /\ Room(t)]_vars

\* C19: no Get is left suspended with room for its request when no other
\* call is running.
C19_NoSuspendWithRoom ==
    ~ \E t \in Procs :
        /\ pc[t] = "parked"
        /\ Room(t)
        /\ \A u \in Procs : pc[u] \in {"idle", "parked"}

\* C20: a Put's Broadcast wakes every Get suspended at that moment, and a
\* Get that a Broadcast has woken is not left suspended again with room for
\* its request when no other call is running.
C20_BroadcastLetsAllReturn ==
    /\ [](~ \E t \in Procs :
              /\ pc[t] = "parked" /\ lh[t].woke
              /\ Room(t)
              /\ \A u \in Procs : pc[u] \in {"idle", "parked"})
    /\ [][\A t \in Procs :
            (pc[t] = "bcast" /\ pc'[t] # "bcast")
            => notify' = <<>> /\ \A u \in Waiters : pc'[u] = "load"]_vars

(***************************************************************************)
(* Properties of the constructors and of every Put                         *)
(***************************************************************************)
\* C16: NewIndexPool(n) panics exactly when n <= 0, NewMemPool(n, size)
\* exactly when n <= 0 or size <= 0, NewLimiter(limit) exactly when
\* limit < 0 (so limit = 0 is accepted); a constructor that panics produces
\* no object and changes nothing; one that returns produces a pool of n slots
\* that are all 0 (and n zeroed buffers of size bytes), or a limiter with the
\* given limit and inuse = 0; and while nothing has been constructed no call
\* is running.
C16_Construction ==
    /\ [](obj = "none" => /\ \A t \in Procs : pc[t] = "idle"
                          /\ indices = <<>> /\ bufs = <<>>)
    /\ [][ctor' # ctor =>
            /\ ctor'.fn = "NewIndexPool" => (ctor'.panic <=> ctor'.n <= 0)
            /\ ctor'.fn = "NewMemPool"
               => (ctor'.panic <=> (ctor'.n <= 0 \/ ctor'.size <= 0))
            /\ ctor'.fn = "NewLimiter" => (ctor'.panic <=> ctor'.n < 0)
            /\ ctor'.panic => (obj' = "none" /\ UNCHANGED fields)
            /\ (~ctor'.panic /\ ctor'.fn \in {"NewIndexPool", "NewMemPool"})
               => /\ obj' = (IF ctor'.fn = "NewIndexPool" THEN "IndexPool" ELSE "MemPool")
                  /\ n' = ctor'.n
                  /\ DOMAIN indices' = 0..(n' - 1)
                  /\ \A i \in 0..(n' - 1) : indices'[i] = 0
            /\ (~ctor'.panic /\ ctor'.fn = "NewMemPool")
               => /\ DOMAIN bufs' = 0..(n' - 1)
                  /\ \A i \in 0..(n' - 1) :
                       /\ DOMAIN bufs'[i] = 0..(ctor'.size - 1)
                       /\ \A j \in DOMAIN bufs'[i] : bufs'[i][j] = 0
            /\ (~ctor'.panic /\ ctor'.fn = "NewLimiter")
               => obj' = "Limiter" /\ limit' = ctor'.n /\ inuse' = 0]_vars

\* C16 witness: NewLimiter(0) has returned a Limiter, on which a Get(1) has
\* since panicked and a Get(0) is about to be granted.
C16_Witness ==
    /\ ctor = [fn |-> "NewLimiter", n |-> 0, size |-> 0, panic |-> FALSE]
    /\ obj = "Limiter" /\ limit = 0 /\ inuse = 0
    /\ lres = [op |-> "Get", val |-> 1, panic |-> TRUE]
    /\ \E t \in Procs : pc[t] = "cas"

\* Goroutine t is inside a Put, past its first step.
InPut(t) == pc[t] \in {"match", "clear", "mput", "store", "signal", "bcast"}

\* The most steps a Put at position p, with clearing loop variable j, has
\* left to take.
PutRank(p, j) ==
    CASE p = "match" -> BufSize + 4
      [] p = "clear" -> (BufSize - j) + 3
      [] p = "mput" -> 3
      [] p = "store" -> 2
      [] p = "signal" -> 1
      [] p = "bcast" -> 1
      [] OTHER -> 0

\* The next step of a Put that goroutine t is inside.
PutStep(t) ==
    \/ MemPutScan(t)
    \/ MemClear(t)
    \/ MemPutIndex(t)
    \/ PutStore(t)
    \/ PutSignal(t)
    \/ LimiterBroadcast(t)

\* C17: a goroutine inside IndexPool.Put, MemPool.Put or Limiter.Put can
\* always take its next step, whatever the other goroutines are doing; every
\* step it takes lowers the count of steps it has left, which starts at
\* BufSize + 4 at most and is positive until Put has returned or panicked;
\* and no step of another goroutine changes where it is.
C17_PutNeverBlocks ==
    /\ [](\A t \in Procs :
            InPut(t) => /\ ENABLED PutStep(t)
                        /\ PutRank(pc[t], cj[t]) >= 1
                        /\ pc[t] = "clear" => PutRank(pc[t], cj[t]) > PutRank("mput", 0))
    /\ [][\A t \in Procs :
            InPut(t) => \/ pc'[t] = pc[t] /\ cj'[t] = cj[t]
                        \/ PutRank(pc'[t], cj'[t]) < PutRank(pc[t], cj[t])]_vars

\* C17 witness: a MemPool.Put that has cleared its buffer is at its Signal
\* while the other goroutine is suspended in Get.
C17_Witness ==
    /\ obj = "MemPool" /\ ~NoClear
    /\ \E t, u \in Procs : pc[t] = "signal" /\ pc[u] = "parked" /\ wrote # {}

(***************************************************************************)
(* Properties of IndexPool                                                 *)
(***************************************************************************)
Outstanding == UNION {held[t] : t \in Procs}

\* No goroutine is inside Get's scan or inside Put (a goroutine suspended in
\* Wait takes no step until it is signalled).
Quiescent == \A t \in Procs : pc[t] \in {"idle", "parked"}

\* C1: when callers Put only indices they hold, no index is held by two
\* callers at once, every held index is marked taken, and at most n indices
\* are outstanding.
C1_Exclusive ==
    /\ \A t, u \in Procs : t # u => held[t] \cap held[u] = {}
    /\ \A t \in Procs : \A i \in held[t] : i \in Slots /\ indices[i] = 1
    /\ Cardinality(Outstanding) <= n

\* C1 witness: a pool of the largest capacity with all n indices outstanding,
\* held by different goroutines, while another Get is suspended.
C1_Witness ==
    /\ n = MaxN
    /\ Cardinality(Outstanding) = n
    /\ \E t, u \in Procs : t # u /\ held[t] # {} /\ held[u] # {}
    /\ \E t \in Procs : pc[t] = "parked"

\* C2: whenever no Get or Put is mid-step, slot i is marked taken exactly when
\* index i was returned by Get and has not since been passed to Put.
C2_Bookkeeping ==
    Quiescent => \A i \in Slots : (indices[i] = 1) <=> (i \in Outstanding)

\* C3: no Get is left suspended once every index handed out has been Put back
\* and no other call is running: in such a state no Signal can follow, so the
\* suspended Get would never return.
C3_NoStrandedGet ==
    ~ /\ \E t \in Procs : pc[t] = "parked"
      /\ Quiescent
      /\ Outstanding = {}

\* C4: after i := Get() and Put(i) by one goroutine on a pool where nothing
\* else is in flight, the Get that follows does not reach cond.Wait.
C4_RoundTrip ==
    rt.ph = 5 => pc[rt.t] \notin {"wait", "parked"}

\* C5 as claimed: a Get called with every slot taken does not return before a
\* Put has stored 0, and a Get is suspended in Wait only while every slot is
\* taken.
C5_SuspendedOnlyWhenFull ==
    /\ \A t \in Procs : pc[t] = "idle" => ~blk[t]
    /\ \A t \in Procs : pc[t] = "parked" => \A i \in Slots : indices[i] = 1

\* C5 as amended: a Get called with every slot taken does not return before a
\* Put has stored 0, and a Get reaches Wait only after its compare-and-swap
\* failed on each of the n slots in one pass.
C5_SuspendsAfterFullScan ==
    /\ \A t \in Procs : pc[t] = "idle" => ~blk[t]
    /\ \A t \in Procs : pc[t] \in {"wait", "parked"} => seen[t] = Slots

\* C5 witness: a Get that was called with every slot of a pool of capacity
\* MaxN taken is suspended, and no Put has stored 0 since the call.
C5_Witness ==
    /\ n = MaxN
    /\ \E t \in Procs : pc[t] = "parked" /\ blk[t]

\* C6: a Put whose argument is outside [0, n) panics, and that step changes no
\* slot flag (nor the notify list); no such Put gets as far as the store or
\* the Signal.
C6_OutOfRangePanics ==
    /\ [](\A t \in Procs : pc[t] \in {"store", "signal"} => idx[t] \in Slots)
    /\ [][\A t \in Procs :
            (res'[t] # res[t] /\ res'[t].op = "Put" /\ res'[t].val \notin Slots)
            => /\ res'[t].panic
               /\ pc[t] = "idle" /\ pc' = pc
               /\ indices' = indices
               /\ notify' = notify]_vars

\* C6 witness: Put(-1) or Put(n) has panicked on a pool with a taken slot.
C6_Witness ==
    /\ \E t \in Procs :
         res[t].op = "Put" /\ res[t].panic /\ res[t].val \notin Slots
    /\ \E i \in Slots : indices[i] = 1

\* C7: Put(i) for i in [0, n) gets past its checks only if index i is
\* outstanding (returned by Get and not yet passed to Put); otherwise it
\* panics.
C7_DoubleReleasePanics ==
    [][\A t \in Procs :
         (pc[t] = "idle" /\ pc'[t] \in {"store", "signal"})
         => idx'[t] \in Outstanding]_vars

(***************************************************************************)
(* Properties of MemPool                                                   *)
(***************************************************************************)
RegionStarts == {RegionAddr(i) : i \in Slots}

AllZero(i) == \A j \in Offsets : bufs[i][j] = 0

\* C8: MemPool.Put(b) with b's Data pointer at the start of none of the n
\* regions panics in its scan, and that step changes no slot flag, no byte of
\* any region and no waiter.
C8_ForeignPanics ==
    [][\A t \in Procs :
         (pc[t] = "match" /\ pc'[t] # "match" /\ b[t].Data \notin RegionStarts)
         => /\ pc'[t] = "idle"
            /\ res'[t] = [op |-> "MemPut", val |-> b[t].Data, panic |-> TRUE]
            /\ indices' = indices
            /\ bufs' = bufs
            /\ notify' = notify]_vars

\* C8 witness: a Put of a buffer that starts inside a region or in another
\* allocation has panicked while a slot was taken and a byte was non-zero.
C8_Witness ==
    /\ \E t \in Procs :
         res[t].op = "MemPut" /\ res[t].panic /\ res[t].val \notin RegionStarts
    /\ \E i \in Slots : indices[i] = 1 /\ ~AllZero(i)

\* C9: MemPool.Put(b) with b's Data pointer at the start of region i, whatever
\* b's length and the region's contents, does not panic and goes on with slot
\* i; its p.indices.Put(i) goes on to the atomic store, which sets slot i to 0
\* and changes no other slot; its Signal wakes the longest-waiting Get if
\* there is one.
C9_ReleaseByIdentity ==
    [][\A t \in Procs :
         /\ (pc[t] = "match" /\ pc'[t] # "match" /\ b[t].Data \in RegionStarts)
            => pc'[t] \in {"clear", "mput"} /\ RegionAddr(idx'[t]) = b[t].Data
         /\ (pc[t] = "mput" /\ pc'[t] # "mput")
            => pc'[t] = "store"
         /\ (pc[t] = "store" /\ pc'[t] # "store")
            => /\ indices'[idx[t]] = 0
               /\ \A k \in Slots : k # idx[t] => indices'[k] = indices[k]
         /\ (pc[t] = "signal" /\ pc'[t] # "signal" /\ notify # <<>>)
            => pc'[Head(notify)] = "scan"]_vars

\* C10: with NoClear unset, the buffer a Get has just returned is all zero;
\* the slot of a region that Put is still clearing is taken, and the region of
\* every available slot is all zero.
C10_GetReturnsZeroed ==
    ~NoClear =>
        /\ \A t \in Procs :
              (pc[t] = "idle" /\ res[t].op = "Get") => AllZero(res[t].val)
        /\ \A t \in Procs : pc[t] = "clear" => indices[idx[t]] = 1
        /\ \A i \in Slots : indices[i] = 0 => AllZero(i)

\* C10 witness: with NoClear unset, a Get has just returned a region that an
\* earlier holder had written to, while another region is dirty.
C10_Witness ==
    /\ ~NoClear
    /\ \E t \in Procs :
         /\ pc[t] = "idle" /\ res[t].op = "Get" /\ res[t].val \in wrote
         /\ \E i \in Slots : ~AllZero(i)


(***************************************************************************)
(* IndexPool: woken Gets and racing Gets, and the order of the scan.       *)
(***************************************************************************)
\* C21: a Get that a Signal wakes starts a new pass at slot 0 with nothing
\* returned, and scans the slots in order; it returns i only in a step in
\* which its own compare-and-swap changes slot i from 0 to 1; when its
\* compare-and-swap has failed on every slot it calls Wait again and is
\* suspended with no index returned.
C21_WokenRescans ==
    /\ [](\A t \in Procs :
            (lh[t].woke /\ pc[t] = "scan") => seen[t] = 0..(idx[t] - 1))
    /\ [][\A t \in Procs :
            /\ (pc[t] = "parked" /\ pc'[t] # "parked")
               => /\ pc'[t] = "scan" /\ idx'[t] = 0 /\ seen'[t] = {}
                  /\ lh'[t].woke
                  /\ held'[t] = held[t] /\ res'[t] = res[t]
                  /\ indices' = indices
            /\ (lh[t].woke /\ pc[t] = "scan" /\ pc'[t] = "idle")
               => /\ indices[idx[t]] = 0
                  /\ indices' = [indices EXCEPT ![idx[t]] = 1]
                  /\ res'[t] = [op |-> "Get", val |-> idx[t], panic |-> FALSE]
                  /\ held'[t] = held[t] \cup {idx[t]}
            /\ (lh[t].woke /\ pc[t] = "scan" /\ pc'[t] \notin {"scan", "idle"})
               => /\ pc'[t] = "wait" /\ seen'[t] = Slots
                  /\ held'[t] = held[t] /\ res'[t] = NoRes
                  /\ indices' = indices
            /\ (lh[t].woke /\ pc[t] = "wait" /\ pc'[t] # "wait")
               => /\ pc'[t] = "parked"
                  /\ notify' = Append(notify, t)
                  /\ held'[t] = held[t] /\ res'[t] = NoRes
                  /\ indices' = indices]_vars

\* C21 witness: both outcomes in one state.  Goroutine t's last Get was woken
\* and has returned; goroutine w was woken, found every slot taken and is
\* suspended again, while the Get of u, which never called Wait, has
\* returned a slot that u still holds.
C21_Witness ==
    \E t, u, w \in Procs :
        /\ pc[t] = "idle" /\ lh[t].woke
        /\ pc[w] = "parked" /\ lh[w].woke /\ lh[w].short
        /\ \E k \in DOMAIN notify : notify[k] = w
        /\ pc[u] = "idle" /\ lh[u] = NoLH
        /\ res[u].op = "Get" /\ res[u].val \in held[u]

\* C22: a Get that is called while every other goroutine is idle, and that
\* returns before any other goroutine takes a step, returns the lowest slot
\* that holds 0, and the step in which it returns changes that slot to 1 and
\* no other slot; it goes to cond.Wait only if every slot holds 1.
C22_LowestFree ==
    /\ [][\A t \in Procs :
            (rt' # rt /\ rt'.t = t /\ rt'.ph = 2)
            => /\ indices[rt'.i] = 0
               /\ \A j \in 0..(rt'.i - 1) : indices[j] = 1
               /\ indices' = [indices EXCEPT ![rt'.i] = 1]
               /\ res'[t] = [op |-> "Get", val |-> rt'.i, panic |-> FALSE]]_vars
    /\ [][\A t \in Procs :
            (rt'.t = t /\ rt'.ph \in {1, 5} /\ pc[t] # "wait" /\ pc'[t] = "wait")
            => \A i \in Slots : indices[i] = 1]_vars

\* C22 witness: on a pool of the largest capacity one goroutine holds the
\* slots 0 .. n-1, the last of which a Get with no other goroutine active has
\* just returned.
C22_Witness ==
    /\ n = MaxN
    /\ \E t \in Procs :
         /\ rt.t = t /\ rt.ph = 2 /\ rt.i = n - 1
         /\ held[t] = Slots
         /\ res[t] = [op |-> "Get", val |-> n - 1, panic |-> FALSE]


(***************************************************************************)
(* FixedPool.                                                              *)
(***************************************************************************)
\* The goroutines that have buffer i: Get returned it to them and they have
\* not passed it to Put since, or their compare-and-swap in Get claimed it.
Claimers(i) ==
    {t \in Procs : i \in held[t] \/ (pc[t] = "fclear" /\ idx[t] = i)}

\* C23: when callers Put only buffers they hold, no buffer is claimed by or
\* returned to a goroutine while another goroutine holds it or has claimed
\* it, the Len of every held or claimed buffer is 0, and at most n buffers
\* are outstanding.
C23_FixedExclusive ==
    /\ \A i \in Slots :
          /\ Cardinality(Claimers(i)) <= 1
          /\ Claimers(i) # {} => lens[i] = 0
    /\ \A t \in Procs : ~(pc[t] = "fclear" /\ idx[t] \in held[t])
    /\ Cardinality({<<t, i>> \in Procs \X Slots : i \in held[t]}) <= n

\* C23 witness: every buffer of a pool of the largest capacity is
\* outstanding, two goroutines hold some each, and one of them got its
\* buffer in a Get that copied the header while the buffer was still taken.
C23_Witness ==
    /\ n = MaxN
    /\ \E t, u \in Procs :
         /\ t # u /\ held[t] # {} /\ held[u] # {}
         /\ held[t] \cup held[u] = Slots
         /\ res[t].op = "FixedGet" /\ s[t].Len = 0

\* C24: every slice that FixedPool.Get has returned has length BufSize.
C24_ResultLength ==
    \A t \in Procs : res[t].op = "FixedGet" => s[t].Len = BufSize

\* C25: the buffer that FixedPool.Get has just returned is all zero.
C25_ClearedOnGet ==
    \A t \in Procs :
        (pc[t] = "idle" /\ res[t].op = "FixedGet") => AllZero(res[t].val)

\* b is a buffer of the pool that is taken.
BufOutstanding(buf) == \E i \in Slots : DataMatches(i, buf) /\ lens[i] = 0

\* C26: FixedPool.Put(b) with b not outstanding panics, and that step
\* changes no header, no byte and no waiter.
C26_PutOwnership ==
    [][\A t \in Procs :
         (pc[t] = "fmatch" /\ pc'[t] # "fmatch" /\ ~BufOutstanding(b[t]))
         => /\ pc'[t] = "idle"
            /\ res'[t] = [op |-> "FixedPut", val |-> b[t].Data, panic |-> TRUE]
            /\ lens' = lens
            /\ bufs' = bufs
            /\ notify' = notify]_vars


(***************************************************************************)
(* mempool.MemPool.                                                        *)
(***************************************************************************)
SomeAvailable == \E i \in Slots : lens[i] # 0

\* C27: a Get holds p.mu from the start of its pass until cond.Wait has put
\* it on the notify list, and no Len changes in between; a Len changes only
\* in a step of the goroutine that holds p.mu; a goroutine outside Get and
\* Put does not hold p.mu, and the step in which Get returns leaves p.mu
\* unlocked; no Get is suspended while a buffer is available and every
\* other goroutine is idle or suspended; and under fair scheduling a Get
\* that is suspended while a buffer is available returns, unless the
\* available buffers are taken.
C27_NoLostWakeup ==
    /\ [](\A t \in Procs :
            /\ pc[t] \in {"mscan", "munlock", "mwait", "pstore", "punlock"}
               <=> mu = t
            /\ pc[t] = "mwait" => ~SomeAvailable
            /\ (pc[t] = "parked" /\ SomeAvailable)
               => \E u \in Procs : pc[u] \notin {"idle", "parked"})
    /\ [][/\ lens' # lens => (mu # 0 /\ pc'[mu] # pc[mu])
          /\ \A t \in Procs :
               /\ (pc[t] = "mwait" /\ pc'[t] # "mwait")
                  => /\ pc'[t] = "parked" /\ mu' = 0
                     /\ notify' = Append(notify, t)
               /\ (pc[t] # "idle" /\ pc'[t] = "idle" /\ res'[t].op = "MuGet")
                  => mu' = 0 /\ lens[res'[t].val] = 0]_vars
    /\ \A t \in 1..NProcsMutex :
          (pc[t] = "parked" /\ SomeAvailable)
          ~> (pc[t] = "idle" \/ ~SomeAvailable)

\* C27 witness: a Get that was suspended and woken by the Signal of a Put
\* has returned a buffer with p.mu unlocked, while another Get is suspended
\* and no buffer is available.
C27_Witness ==
    \E t, u \in Procs :
        /\ pc[t] = "idle" /\ lh[t].woke
        /\ res[t].op = "MuGet" /\ res[t].val \in held[t]
        /\ mu = 0
        /\ pc[u] = "parked" /\ ~SomeAvailable

====
